---- MODULE Spec2Model ----
(***************************************************************************)
(* Model of the multi-agent financial analyst pipeline:                    *)
(*   coordinator_agent.py  extract_tickers_from_query, CoordinatorAgent    *)
(*   data_utils.py         get_market_data, summarize_market_data,         *)
(*                         _fake_news_for_ticker, get_news_for_tickers     *)
(*   market_data_agent.py  MarketDataAgent                                 *)
(*   web_news_agent.py     WebNewsAgent                                    *)
(*   nlp_agent.py          NLPAgent.analyze                                *)
(*   llm_analyst_agent.py  LLMAnalystAgent                                 *)
(*                                                                         *)
(* Strings are sequences of one-character strings.  A Python dict is an    *)
(* insertion-ordered sequence of <<key, value>> pairs.  A call that raises *)
(* is the value Raised(..) in place of its return value.                   *)
(***************************************************************************)
EXTENDS Integers, Sequences, FiniteSets, TLC

VARIABLES
    history,    \* CoordinatorAgent.history: the records of the completed runs
    completed,  \* number of run calls that returned
    calls,      \* number of run calls made
    input,      \* arguments (and environment responses) of the last call
    output,     \* what the last call returned, or that it raised
    nlp         \* NLPAgent: its fitted vectorizer/classifier

vars == <<history, completed, calls, input, output, nlp>>

----------------------------------------------------------------------------
(* Bounds of the model *)

\* longest query of the ticker-extraction specification
MaxQueryLen == 6

----------------------------------------------------------------------------
(* Generic helpers *)

NoOutput == [kind |-> "none"]

Raised(what) == [kind |-> "raise", error |-> what]

Returned(v) == [kind |-> "return", value |-> v]

Range(s) == {s[i] : i \in 1..Len(s)}

Min(a, b) == IF a <= b THEN a ELSE b

\* all sequences over S of length at most n
SeqsUpTo(S, n) == UNION {[1..k -> S] : k \in 0..n}

----------------------------------------------------------------------------
(* Python dicts: insertion-ordered <<key, value>> pairs *)

Keys(d) == [i \in 1..Len(d) |-> d[i][1]]

KeySet(d) == {d[i][1] : i \in 1..Len(d)}

DictGet(d, k) == d[CHOOSE i \in 1..Len(d) : d[i][1] = k][2]

\* d[k] = v: a new key is appended, an existing key keeps its position
DictSet(d, k, v) ==
    IF k \in KeySet(d)
    THEN [i \in 1..Len(d) |-> IF d[i][1] = k THEN <<k, v>> ELSE d[i]]
    ELSE Append(d, <<k, v>>)

----------------------------------------------------------------------------
(* coordinator_agent.py: extract_tickers_from_query *)

\* the characters a query is made of: two uppercase ASCII letters, a
\* lowercase letter, a digit, the underscore and the space
Upper == {"A", "B"}
Lower == {"a"}
Digits == {"1"}
Alphabet == Upper \cup Lower \cup Digits \cup {"_", " "}

\* [A-Z]
IsUpper(c) == c \in Upper

\* \w of a Python 3 str pattern: letters, digits and the underscore
IsWordChar(c) == c \in Upper \cup Lower \cup Digits \cup {"_"}

IsLetter(c) == c \in Upper \cup Lower

\* the longest repetition the pattern allows: {1,5}
MaxTickerLen == 5

WordAt(q, i) == i >= 1 /\ i <= Len(q) /\ IsWordChar(q[i])

LetterAt(q, i) == i >= 1 /\ i <= Len(q) /\ IsLetter(q[i])

\* a boundary that looks at letters only
LetterBoundary(q, i) == LetterAt(q, i - 1) # LetterAt(q, i)

\* \b before position i: exactly one of q[i-1], q[i] is a word character
WordBoundary(q, i) == WordAt(q, i - 1) # WordAt(q, i)

\* the lengths k with which \b[A-Z]{1,5}\b matches at position i
MatchLens(q, i) ==
    {k \in 1..MaxTickerLen :
        /\ i + k - 1 <= Len(q)
        /\ \A j \in i..(i + k - 1) : IsUpper(q[j])
        /\ WordBoundary(q, i)
        /\ WordBoundary(q, i + k)}

\* the greedy quantifier tries the longest repetition first
MatchLen(q, i) ==
    LET ks == MatchLens(q, i)
    IN  IF ks = {} THEN 0 ELSE CHOOSE k \in ks : \A m \in ks : m <= k

\* re.findall: the non-overlapping matches, scanning from the left; each
\* match is <<first, last>>, the positions it covers
RECURSIVE FindAllFrom(_, _)
FindAllFrom(q, i) ==
    IF i > Len(q) THEN <<>>
    ELSE LET k == MatchLen(q, i)
         IN  IF k > 0
             THEN <<(<<i, i + k - 1>>)>> \o FindAllFrom(q, i + k)
             ELSE FindAllFrom(q, i + 1)

FindAllSpans(q) == FindAllFrom(q, 1)

\* the strings re.findall returns
FindAll(q) ==
    LET sp == FindAllSpans(q)
    IN  [n \in 1..Len(sp) |-> SubSeq(q, sp[n][1], sp[n][2])]

\* the seen/unique loop
RECURSIVE UniqueLoop(_, _, _, _)
UniqueLoop(tickers, n, seen, unique) ==
    IF n > Len(tickers) THEN unique
    ELSE IF tickers[n] \notin seen
         THEN UniqueLoop(tickers, n + 1, seen \cup {tickers[n]},
                         Append(unique, tickers[n]))
         ELSE UniqueLoop(tickers, n + 1, seen, unique)

UniqueNoSeen(tickers) == tickers

Unique(tickers) == UniqueLoop(tickers, 1, {}, <<>>)

extract_tickers_from_query(query) == Unique(FindAll(query))

----------------------------------------------------------------------------
(* nlp_agent.py: NLPAgent.__init__ *)

\* the keys of `counts`, in the order the dict literal inserts them
CountsOrder == <<"positivo", "negativo", "neutral">>

Labels == Range(CountsOrder)

\* the classes of headline the classifier tells apart
NumFeatures == 3

\* NLPAgent.__init__: the vectorizer and the classifier are created and
\* _train_model fits each once.  clf is the trained classifier: the label
\* it gives to each class of headline.
NLPAgentInit(clf) == [vectorizer_fits |-> 1, clf_fits |-> 1, clf |-> clf]

\* the classifier of the specifications that are not about the sentiments
SampleClf == [f \in 1..NumFeatures |-> CountsOrder[((f - 1) % 3) + 1]]

----------------------------------------------------------------------------
(* Specification of the ticker extraction alone: the query is any string   *)
(* of at most MaxQueryLen characters.                                      *)

InitExtract ==
    /\ history = <<>>
    /\ completed = 0
    /\ calls = 0
    /\ nlp = NLPAgentInit(SampleClf)
    /\ input \in {[kind |-> "extract", query |-> q] :
                    q \in SeqsUpTo(Alphabet, MaxQueryLen)}
    /\ output = NoOutput

Extract ==
    /\ input.kind = "extract"
    /\ output = NoOutput
    /\ output' = [kind |-> "extract",
                  spans |-> FindAllSpans(input.query),
                  found |-> FindAll(input.query),
                  value |-> extract_tickers_from_query(input.query)]
    /\ UNCHANGED <<history, completed, calls, input, nlp>>

NextExtract == Extract

SpecExtract == InitExtract /\ [][NextExtract]_vars

\* the runs of 1..MaxTickerLen uppercase letters of q whose neighbours on
\* both sides satisfy Outside, or are the ends of q
RunsBoundedBy(q, Outside(_)) ==
    {sp \in (1..Len(q)) \X (1..Len(q)) :
        /\ sp[1] <= sp[2]
        /\ sp[2] - sp[1] + 1 <= MaxTickerLen
        /\ \A j \in sp[1]..sp[2] : IsUpper(q[j])
        /\ (sp[1] = 1 \/ Outside(q[sp[1] - 1]))
        /\ (sp[2] = Len(q) \/ Outside(q[sp[2] + 1]))}

NotWordChar(c) == ~IsWordChar(c)

NotLetter(c) == ~IsLetter(c)

Extracted == output.kind = "extract"

\* C5 (as amended): the candidates are exactly the runs of 1 to 5 uppercase
\* ASCII letters whose neighbours on both sides are non-word characters
\* (no letter, digit or underscore) or the ends of the query, in the order
\* of their position; a run next to a digit or an underscore is no candidate.
C5_CandidatesAreWordBoundedRuns ==
    Extracted =>
        /\ Range(output.spans) = RunsBoundedBy(input.query, NotWordChar)
        /\ \A n \in 1..(Len(output.spans) - 1) :
                output.spans[n][2] < output.spans[n + 1][1]
        /\ Len(output.found) = Len(output.spans)
        /\ \A n \in 1..Len(output.spans) :
                output.found[n] =
                    SubSeq(input.query, output.spans[n][1], output.spans[n][2])

\* C5 (as claimed): the candidates are exactly the runs of 1 to 5 uppercase
\* ASCII letters whose neighbours on both sides are non-letters or the ends
\* of the query, so that a run next to a digit or an underscore is one.
C5_CandidatesAreLetterBoundedRuns ==
    Extracted =>
        Range(output.spans) = RunsBoundedBy(input.query, NotLetter)

\* a query with a candidate and with an uppercase run next to a digit or an
\* underscore, which is none
C5_Witness ==
    /\ Extracted
    /\ output.spans # <<>>
    /\ RunsBoundedBy(input.query, NotLetter)
            # RunsBoundedBy(input.query, NotWordChar)

\* the first position of x in s
FirstIndex(s, x) == CHOOSE i \in 1..Len(s) : s[i] = x /\ \A j \in 1..(i - 1) : s[j] # x

\* C6: the returned sequence has no duplicate, contains every matched
\* candidate and nothing else, and is ordered by first occurrence in the
\* query; a query without candidate gives the empty sequence, not an error.
C6_UniqueInFirstOccurrenceOrder ==
    Extracted =>
        LET u == output.value
            f == output.found
        IN  /\ \A i, j \in 1..Len(u) : i # j => u[i] # u[j]
            /\ Range(u) = Range(f)
            /\ \A i, j \in 1..Len(u) :
                    i < j => FirstIndex(f, u[i]) < FirstIndex(f, u[j])
            /\ (f = <<>> => u = <<>>)
            /\ ((\A n \in 1..Len(input.query) : input.query[n] = " ")
                    => u = <<>>)

\* a query in which a candidate occurs twice and another one occurs too
C6_Witness ==
    /\ Extracted
    /\ Len(output.value) >= 2
    /\ Len(output.found) > Len(output.value)

----------------------------------------------------------------------------
(* data_utils.py: _fake_news_for_ticker, get_news_for_tickers *)

\* the tickers of the news, market and coordinator specifications
TA == <<"A">>
TB == <<"B">>
Tickers == {TA, TB}

\* number of headline templates in `base`
NumTemplates == 3

\* a headline: template n of `base` formatted with a ticker, or the visible
\* text number `text` of an anchor of the page (text 0 is the empty string)
TemplateTitle(t, n) == [template |-> n, ticker |-> t, text |-> 0]
PageTitle(id) == [template |-> 0, ticker |-> <<>>, text |-> id]

\* the href of an anchor: whether it starts with "http", whether it
\* contains "/news/", and which link it is
Hrefs ==
    {[http |-> TRUE, news |-> TRUE, id |-> 1],
     [http |-> FALSE, news |-> TRUE, id |-> 2],
     [http |-> FALSE, news |-> FALSE, id |-> 3]}

NoHref == [http |-> FALSE, news |-> FALSE, id |-> 0]

\* url None, and the full_url of an anchor: the href itself when it starts
\* with "http", else the site prefix followed by the href
NoneUrl == [none |-> TRUE, prefixed |-> FALSE, href |-> NoHref]
FullUrl(href) == [none |-> FALSE, prefixed |-> ~href.http, href |-> href]

\* Python's base[:n] on a list of NumTemplates items
SliceLen(n) ==
    IF n >= 0 THEN Min(n, NumTemplates)
    ELSE IF NumTemplates + n > 0 THEN NumTemplates + n ELSE 0

\* _fake_news_for_ticker
FakeNews(ticker, n) ==
    [i \in 1..SliceLen(n) |->
        [titulo |-> TemplateTitle(ticker, i), url |-> NoneUrl]]

\* the loop over the anchors of the page: an anchor whose href contains
\* "/news/" and whose text is not empty is appended, and the loop breaks
\* once len(articles) >= max_articles (tested after an append only)
RECURSIVE ScrapeLoop(_, _, _, _)
ScrapeLoop(links, i, articles, max_articles) ==
    IF i > Len(links) THEN articles
    ELSE LET a == links[i]
         IN  IF a.href.news /\ a.text # 0
             THEN LET more == Append(articles,
                                [titulo |-> PageTitle(a.text),
                                 url |-> FullUrl(a.href)])
                  IN  IF Len(more) >= max_articles
                      THEN more
                      ELSE ScrapeLoop(links, i + 1, more, max_articles)
             ELSE ScrapeLoop(links, i + 1, articles, max_articles)

\* the body of the loop over the tickers: the try/except around the request
NewsForTicker(t, resp, max_articles) ==
    IF resp.kind = "raise"
    THEN FakeNews(t, max_articles)
    ELSE LET articles == IF resp.status = 200
                         THEN ScrapeLoop(resp.links, 1, <<>>, max_articles)
                         ELSE <<>>
         IN  IF articles = <<>> \/ resp.status # 200
             THEN FakeNews(t, max_articles)
             ELSE articles

\* get_news_for_tickers as WebNewsAgent.get_news calls it (limpiar=False,
\* limpiar_fn=None, so "clean" is None); web[t] is what requests.get
\* answers for the page of ticker t
RECURSIVE NewsLoop(_, _, _, _, _)
NewsLoop(tickers, i, result, max_articles, web) ==
    IF i > Len(tickers) THEN result
    ELSE LET t == tickers[i]
         IN  NewsLoop(tickers, i + 1,
                      DictSet(result, t,
                              [raw |-> NewsForTicker(t, web[t], max_articles),
                               clean |-> "None"]),
                      max_articles, web)

\* a fetch that leaves out the tickers whose request raised
NewsSkippingFailures(tickers, max_articles, web) ==
    NewsLoop(SelectSeq(tickers, LAMBDA t : web[t].kind # "raise"),
             1, <<>>, max_articles, web)

get_news_for_tickers(tickers, max_articles, web) ==
    NewsLoop(tickers, 1, <<>>, max_articles, web)

----------------------------------------------------------------------------
(* Specification of the news fetch alone *)

\* most anchors of a page
MaxLinks == 2

\* largest max_articles
MaxArticles == 4

Anchors == {[href |-> h, text |-> x] : h \in Hrefs, x \in 0..1}

RaiseResponse == [kind |-> "raise", status |-> 0, links |-> <<>>]

Responses ==
    {RaiseResponse} \cup
    {[kind |-> "response", status |-> st, links |-> ls] :
        st \in {200, 404}, ls \in SeqsUpTo(Anchors, MaxLinks)}

\* the answers for the second ticker of a list
BriefResponses ==
    {RaiseResponse,
     [kind |-> "response", status |-> 404, links |-> <<>>],
     [kind |-> "response", status |-> 200,
      links |-> <<[href |-> [http |-> FALSE, news |-> TRUE, id |-> 2],
                  text |-> 1]>>]}

NewsTickerLists == {<<>>, <<TA>>, <<TA, TB>>, <<TB, TA>>, <<TA, TA>>}

InitNews ==
    /\ history = <<>>
    /\ completed = 0
    /\ calls = 0
    /\ nlp = NLPAgentInit(SampleClf)
    /\ input \in {[kind |-> "news", tickers |-> ts, max_articles |-> n,
                   web |-> w] :
                    ts \in NewsTickerLists,
                    n \in 0..MaxArticles,
                    w \in {x \in [Tickers -> Responses] :
                             x[TB] \in BriefResponses}}
    /\ output = NoOutput

GetNews ==
    /\ input.kind = "news"
    /\ output = NoOutput
    /\ output' = [kind |-> "news",
                  value |-> get_news_for_tickers(input.tickers,
                                                 input.max_articles,
                                                 input.web)]
    /\ UNCHANGED <<history, completed, calls, input, nlp>>

NextNews == GetNews

SpecNews == InitNews /\ [][NextNews]_vars

NewsFailed(resp) == resp.kind = "raise" \/ resp.status # 200

\* C1: for every ticker whose request raises or returns a non-success
\* status, the result holds exactly max_articles synthetic fixed-template
\* headlines, each with an absent URL.
C1_FallbackHasMaxArticlesItems ==
    output.kind = "news" =>
        \A t \in Range(input.tickers) :
            NewsFailed(input.web[t]) =>
                LET raw == DictGet(output.value, t).raw
                IN  /\ Len(raw) = input.max_articles
                    /\ \A i \in 1..Len(raw) :
                          /\ raw[i].url = NoneUrl
                          /\ raw[i].titulo.template \in 1..NumTemplates
                          /\ raw[i].titulo.ticker = t

\* the headline candidates of a page, in page order: the anchors whose href
\* contains "/news/" and whose visible text is not empty
RECURSIVE Candidates(_)
Candidates(links) ==
    IF links = <<>> THEN <<>>
    ELSE IF Head(links).href.news /\ Head(links).text # 0
         THEN <<Head(links)>> \o Candidates(Tail(links))
         ELSE Candidates(Tail(links))

\* the request succeeded and the page has a headline candidate
RealPath(resp) ==
    /\ resp.kind = "response"
    /\ resp.status = 200
    /\ Candidates(resp.links) # <<>>

\* C12: for a ticker whose page is fetched with success and has a headline
\* candidate, the items are the first candidates in page order, at most
\* max_articles of them, each with an absolute URL; and the items of no
\* ticker mix items with a URL and items without one.
C12_RealItemsAreFirstCandidatesCapped ==
    output.kind = "news" =>
        \A t \in Range(input.tickers) :
            LET raw == DictGet(output.value, t).raw
                cands == Candidates(input.web[t].links)
            IN  /\ RealPath(input.web[t]) =>
                      /\ Len(raw) <= input.max_articles
                      /\ Len(raw) <= Len(cands)
                      /\ \A i \in 1..Len(raw) :
                            /\ raw[i].titulo = PageTitle(cands[i].text)
                            /\ raw[i].url = FullUrl(cands[i].href)
                            /\ ~raw[i].url.none
                            /\ raw[i].url.prefixed = ~cands[i].href.http
                /\ \A i, j \in 1..Len(raw) : raw[i].url.none = raw[j].url.none

----------------------------------------------------------------------------
(* nlp_agent.py: NLPAgent.analyze *)

\* a.get("titulo") is truthy: the headline is not the empty string
TitleNonEmpty(title) == title.template > 0 \/ title.text > 0

\* _clean_text, vectorizer.transform: the class of headline the fitted
\* vectorizer maps the title to
Feature(title) ==
    IF title.template > 0
    THEN ((title.template - 1) % NumFeatures) + 1
    ELSE title.text

\* clf.predict and int_to_label
Predict(agent, title) == agent.clf[Feature(title)]

\* [a.get("titulo", "") for a in raw_articles if a.get("titulo")]
RECURSIVE TitlesOf(_)
TitlesOf(raw) ==
    IF raw = <<>> THEN <<>>
    ELSE IF TitleNonEmpty(Head(raw).titulo)
         THEN <<Head(raw).titulo>> \o TitlesOf(Tail(raw))
         ELSE TitlesOf(Tail(raw))

\* sum(1 for s in y_pred_labels if s == label)
CountLabel(labels, label) ==
    Cardinality({i \in 1..Len(labels) : labels[i] = label})

\* max(counts, key=counts.get) that keeps the last of the largest counts
RECURSIVE MaxKeyLastFrom(_, _, _, _)
MaxKeyLastFrom(order, counts, i, best) ==
    IF i > Len(order) THEN best
    ELSE IF counts[order[i]] >= counts[best]
         THEN MaxKeyLastFrom(order, counts, i + 1, order[i])
         ELSE MaxKeyLastFrom(order, counts, i + 1, best)

RECURSIVE MaxKeyFrom(_, _, _, _)
MaxKeyFrom(order, counts, i, best) ==
    IF i > Len(order) THEN best
    ELSE IF counts[order[i]] > counts[best]
         THEN MaxKeyFrom(order, counts, i + 1, order[i])
         ELSE MaxKeyFrom(order, counts, i + 1, best)

MaxKeyLast(order, counts) == MaxKeyLastFrom(order, counts, 2, order[1])

\* max(counts, key=counts.get): the keys are visited in insertion order and
\* a later key replaces the best one only when its count is greater
MaxKey(order, counts) == MaxKeyFrom(order, counts, 2, order[1])

\* the body of the loop over news_dict.items()
AnalyzeTicker(agent, info) ==
    LET titles == TitlesOf(info.raw)
    IN  IF titles = <<>>
        THEN [sentiments |-> <<>>, sentiment_global |-> "neutral",
              num_pos |-> 0, num_neg |-> 0, num_neu |-> 0]
        ELSE LET y_pred_labels ==
                     [i \in 1..Len(titles) |-> Predict(agent, titles[i])]
                 num_pos == CountLabel(y_pred_labels, "positivo")
                 num_neg == CountLabel(y_pred_labels, "negativo")
                 num_neu == CountLabel(y_pred_labels, "neutral")
                 counts == [l \in Labels |->
                               CASE l = "positivo" -> num_pos
                                 [] l = "negativo" -> num_neg
                                 [] OTHER -> num_neu]
             IN  [sentiments |-> y_pred_labels,
                  sentiment_global |-> MaxKey(CountsOrder, counts),
                  num_pos |-> num_pos, num_neg |-> num_neg,
                  num_neu |-> num_neu]

RECURSIVE AnalyzeLoop(_, _, _, _)
AnalyzeLoop(agent, news_dict, i, result) ==
    IF i > Len(news_dict) THEN result
    ELSE AnalyzeLoop(agent, news_dict, i + 1,
                     DictSet(result, news_dict[i][1],
                             AnalyzeTicker(agent, news_dict[i][2])))

\* NLPAgent.analyze: it reads the fitted vectorizer and classifier
analyze(agent, news_dict) == AnalyzeLoop(agent, news_dict, 1, <<>>)

\* the agent had analyze called vectorizer.fit_transform and clf.fit on the
\* headlines of a ticker: both are fitted once more
AgentAfterFit(agent) ==
    [agent EXCEPT !.vectorizer_fits = @ + 1, !.clf_fits = @ + 1]

\* the agent after vectorizer.transform and clf.predict on the headlines of
\* a ticker: both read the fitted state and assign nothing
AgentAfterTransform(agent) == agent

\* the agent after the loop of analyze: the tickers without a headline are
\* skipped before the vectorizer is reached
RECURSIVE AgentLoop(_, _, _)
AgentLoop(agent, news_dict, i) ==
    IF i > Len(news_dict) THEN agent
    ELSE IF TitlesOf(news_dict[i][2].raw) = <<>>
         THEN AgentLoop(agent, news_dict, i + 1)
         ELSE AgentLoop(AgentAfterTransform(agent), news_dict, i + 1)

\* the NLPAgent after analyze(news_dict)
AgentAfterAnalyze(agent, news_dict) == AgentLoop(agent, news_dict, 1)

----------------------------------------------------------------------------
(* Specification of the sentiment analysis alone: any trained classifier,  *)
(* any list of at most MaxHeadlines headlines for the first ticker.        *)

MaxHeadlines == 3

HeadlineOf(id) == [titulo |-> PageTitle(id), url |-> NoneUrl]

\* lists of headlines, the empty headline included
HeadlineLists ==
    {[i \in 1..Len(ids) |-> HeadlineOf(ids[i])] :
        ids \in SeqsUpTo(0..NumFeatures, MaxHeadlines)}

\* the headlines of the second ticker
BriefHeadlineLists == {<<>>, <<HeadlineOf(1), HeadlineOf(2)>>}

NewsInfo(raw) == [raw |-> raw, clean |-> "None"]

NewsDicts ==
    {<<>>}
    \cup {<<(<<TA, NewsInfo(a)>>)>> : a \in HeadlineLists}
    \cup {<<(<<TA, NewsInfo(a)>>), (<<TB, NewsInfo(b)>>)>> :
            a \in HeadlineLists, b \in BriefHeadlineLists}

InitSentiment ==
    /\ history = <<>>
    /\ completed = 0
    /\ calls = 0
    /\ nlp \in {NLPAgentInit(c) : c \in [1..NumFeatures -> Labels]}
    /\ input \in {[kind |-> "analyze", news |-> d] : d \in NewsDicts}
    /\ output = NoOutput

Analyze ==
    /\ input.kind = "analyze"
    /\ output = NoOutput
    /\ output' = [kind |-> "analyze", value |-> analyze(nlp, input.news)]
    /\ nlp' = AgentAfterAnalyze(nlp, input.news)
    /\ UNCHANGED <<history, completed, calls, input>>

NextSentiment == Analyze

SpecSentiment == InitSentiment /\ [][NextSentiment]_vars

Max3(a, b, c) ==
    IF a >= b /\ a >= c THEN a ELSE IF b >= c THEN b ELSE c

\* the first label of `order` whose count is the largest of the result r
FirstLargest(order, r) ==
    LET cnt(l) == CASE l = "positivo" -> r.num_pos
                    [] l = "negativo" -> r.num_neg
                    [] OTHER -> r.num_neu
        top == Max3(r.num_pos, r.num_neg, r.num_neu)
    IN  order[CHOOSE i \in 1..Len(order) :
                /\ cnt(order[i]) = top
                /\ \A j \in 1..(i - 1) : cnt(order[j]) # top]

\* the headline lists with the same headlines as raw, in any order
Reorderings(raw) ==
    {[i \in 1..Len(raw) |-> raw[p[i]]] :
        p \in {q \in [1..Len(raw) -> 1..Len(raw)] :
                 \A i, j \in 1..Len(raw) : i # j => q[i] # q[j]}}

\* C4 (as amended): for a ticker with at least one headline the aggregate
\* label is the first label, in the fixed order positive, negative, neutral
\* (the insertion order of `counts`), among those with the highest count;
\* counts of 1 positive, 1 negative and 0 neutral give positive, whatever
\* the order of the headlines.  A ticker without headline gets neutral.
C4_TieBreakPositiveNegativeNeutral ==
    output.kind = "analyze" =>
        \A n \in 1..Len(input.news) :
            LET t == input.news[n][1]
                raw == input.news[n][2].raw
                r == DictGet(output.value, t)
            IN  /\ r.num_pos = CountLabel(r.sentiments, "positivo")
                /\ r.num_neg = CountLabel(r.sentiments, "negativo")
                /\ r.num_neu = CountLabel(r.sentiments, "neutral")
                /\ r.sentiment_global =
                      IF r.sentiments = <<>> THEN "neutral"
                      ELSE FirstLargest(<<"positivo", "negativo", "neutral">>, r)
                /\ \A other \in Reorderings(raw) :
                      AnalyzeTicker(nlp, NewsInfo(other)).sentiment_global
                          = r.sentiment_global

\* C4 (as claimed): when two or more labels share the highest count among
\* the labels of a ticker's headlines, the aggregate label is the first of
\* them in the order negative, neutral, positive.
C4_TieBreakNegativeNeutralPositive ==
    output.kind = "analyze" =>
        \A n \in 1..Len(input.news) :
            LET r == DictGet(output.value, input.news[n][1])
                top == Max3(r.num_pos, r.num_neg, r.num_neu)
            IN  /\ r.sentiments # <<>>
                /\ Cardinality({x \in {<<"p", r.num_pos>>, <<"n", r.num_neg>>,
                                       <<"u", r.num_neu>>} : x[2] = top}) >= 2
                => r.sentiment_global =
                      FirstLargest(<<"negativo", "neutral", "positivo">>, r)

\* a ticker with 1 positive, 1 negative and 0 neutral headlines
C4_Witness ==
    /\ output.kind = "analyze"
    /\ \E n \in 1..Len(output.value) :
          LET r == output.value[n][2]
          IN  /\ r.num_pos = 1 /\ r.num_neg = 1 /\ r.num_neu = 0
              /\ r.sentiment_global = "positivo"

----------------------------------------------------------------------------
(* data_utils.py: get_market_data, summarize_market_data                   *)
(* market_data_agent.py: MarketDataAgent                                   *)
(*                                                                         *)
(* A DataFrame of prices is [has_adj, rows]: whether it has an "Adj Close" *)
(* column, and its rows [date, close, adj] in the order the feed gave      *)
(* them.  Dates are day numbers, distinct within a series.  A price is a   *)
(* whole number of thousandths; a value rounded to two decimals is a whole *)
(* number of hundredths.                                                   *)

\* den > 0: num / den rounded to the nearest integer, a tie to the even one
RoundHalfEven(num, den) ==
    LET q == num \div den
        r == num - q * den
    IN  IF 2 * r < den THEN q
        ELSE IF 2 * r > den THEN q + 1
        ELSE IF q % 2 = 0 THEN q ELSE q + 1

\* round(price, 2), in hundredths
Round2(price) == RoundHalfEven(price, 10)

\* round((price_end - price_start) / price_start * 100, 2), in hundredths
\* of a percent; price_start is not zero
VarPct(price_start, price_end) ==
    IF price_start > 0
    THEN RoundHalfEven(10000 * (price_end - price_start), price_start)
    ELSE RoundHalfEven(10000 * (price_start - price_end), 0 - price_start)

\* yf.download for one ticker raises, or returns a DataFrame
FeedRaises == [kind |-> "raise", has_adj |-> FALSE, rows |-> <<>>]
FeedFrame(has_adj, rows) == [kind |-> "frame", has_adj |-> has_adj, rows |-> rows]

\* what is stored in data_dict: the frame after reset_index
FrameOf(resp) == [has_adj |-> resp.has_adj, rows |-> resp.rows]

\* the loop of get_market_data; a raise of the feed is not caught
RECURSIVE MarketLoop(_, _, _, _)
MarketLoop(tickers, i, data_dict, feed) ==
    IF i > Len(tickers) THEN Returned(data_dict)
    ELSE LET t == tickers[i]
             df == feed[t]
         IN  IF df.kind = "raise" THEN Raised("download")
             ELSE IF df.rows = <<>>
                  THEN MarketLoop(tickers, i + 1, data_dict, feed)
                  ELSE MarketLoop(tickers, i + 1,
                                  DictSet(data_dict, t, FrameOf(df)), feed)

\* get_market_data; feed[t] is what yf.download answers for ticker t
get_market_data(tickers, feed) == MarketLoop(tickers, 1, <<>>, feed)

\* rows in the order given
Unsorted(rows) == rows

\* df.sort_values(by=df.columns[0]): the rows by ascending date
RECURSIVE SortByDate(_)
SortByDate(rows) ==
    IF rows = <<>> THEN <<>>
    ELSE LET m == CHOOSE i \in 1..Len(rows) :
                     \A j \in 1..Len(rows) : rows[i].date <= rows[j].date
             rest == [k \in 1..(Len(rows) - 1) |->
                         IF k < m THEN rows[k] ELSE rows[k + 1]]
         IN  <<rows[m]>> \o SortByDate(rest)

\* first_row[price_col]: "Adj Close" if the frame has it, else "Close"
PriceOf(df, row) == IF df.has_adj THEN row.adj ELSE row.close

\* the columns of pd.DataFrame(rows) for a non-empty list of row dicts
SummaryColumns ==
    <<"ticker", "fecha_inicio", "fecha_fin", "precio_inicio", "precio_fin",
      "variacion_pct">>

\* the loop of summarize_market_data; the division raises on a zero start
RECURSIVE SummarizeLoop(_, _, _)
SummarizeLoop(data_dict, i, rows) ==
    IF i > Len(data_dict)
    THEN Returned([columns |-> IF rows = <<>> THEN <<>> ELSE SummaryColumns,
                   rows |-> rows])
    ELSE LET t == data_dict[i][1]
             df == data_dict[i][2]
             df_sorted == SortByDate(df.rows)
             first_row == df_sorted[1]
             last_row == df_sorted[Len(df_sorted)]
             price_start == PriceOf(df, first_row)
             price_end == PriceOf(df, last_row)
         IN  IF price_start = 0 THEN Raised("ZeroDivisionError")
             ELSE SummarizeLoop(data_dict, i + 1,
                     Append(rows,
                        [ticker |-> t,
                         fecha_inicio |-> first_row.date,
                         fecha_fin |-> last_row.date,
                         precio_inicio |-> Round2(price_start),
                         precio_fin |-> Round2(price_end),
                         variacion_pct |-> VarPct(price_start, price_end)]))

summarize_market_data(data_dict) == SummarizeLoop(data_dict, 1, <<>>)

\* MarketDataAgent.summarize without the guard for an empty mapping
SummarizeUnguarded(data_dict) == summarize_market_data(data_dict)

\* MarketDataAgent.summarize
MarketDataAgent_summarize(data_dict) ==
    IF data_dict = <<>>
    THEN Returned([columns |-> SummaryColumns, rows |-> <<>>])
    ELSE summarize_market_data(data_dict)

----------------------------------------------------------------------------
(* Specification of the summary alone: any non-empty series of at most     *)
(* MaxRows rows for the first ticker, in any order of the dates.           *)

MaxRows == 2

MaxDate == 3

\* prices in thousandths: 0, 1.004 and 2.006
Prices == {0, 1004, 2006}

\* the close and the adjusted close of a row: each price occurs in each
\* column, and the two columns of a row differ
PricePairs == {<<0, 1004>>, <<1004, 2006>>, <<2006, 0>>}

PriceRows ==
    {[date |-> d, close |-> p[1], adj |-> p[2]] :
        d \in 1..MaxDate, p \in PricePairs}

DistinctDates(rows) ==
    \A i, j \in 1..Len(rows) : i # j => rows[i].date # rows[j].date

Series == {rows \in SeqsUpTo(PriceRows, MaxRows) :
             rows # <<>> /\ DistinctDates(rows)}

Frames == {[has_adj |-> h, rows |-> rows] : h \in BOOLEAN, rows \in Series}

\* the frames of the second ticker
BriefFrames ==
    {[has_adj |-> FALSE, rows |-> <<[date |-> 1, close |-> p[1], adj |-> p[2]]>>] :
        p \in {<<0, 1004>>, <<1004, 2006>>}}

DataDicts ==
    {<<>>}
    \cup {<<(<<TA, a>>)>> : a \in Frames}
    \cup {<<(<<TA, a>>), (<<TB, b>>)>> : a \in Frames, b \in BriefFrames}
    \cup {<<(<<TB, b>>), (<<TA, a>>)>> : a \in Frames, b \in BriefFrames}

InitSummarize ==
    /\ history = <<>>
    /\ completed = 0
    /\ calls = 0
    /\ nlp = NLPAgentInit(SampleClf)
    /\ input \in {[kind |-> "summarize", data_dict |-> d] : d \in DataDicts}
    /\ output = NoOutput

Summarize ==
    /\ input.kind = "summarize"
    /\ output = NoOutput
    /\ output' = [kind |-> "summarize",
                  result |-> MarketDataAgent_summarize(input.data_dict)]
    /\ UNCHANGED <<history, completed, calls, input, nlp>>

NextSummarize == Summarize

SpecSummarize == InitSummarize /\ [][NextSummarize]_vars

\* the price of the frame at its earliest / latest date
PriceAtEarliest(df) ==
    PriceOf(df, CHOOSE r \in Range(df.rows) :
                   \A o \in Range(df.rows) : r.date <= o.date)

PriceAtLatest(df) ==
    PriceOf(df, CHOOSE r \in Range(df.rows) :
                   \A o \in Range(df.rows) : r.date >= o.date)

Abs(x) == IF x >= 0 THEN x ELSE 0 - x

\* p (hundredths of a percent) is (e - s) / s * 100 rounded to two decimals
IsPercentChange(p, s, e) ==
    2 * Abs(p * s - 10000 * (e - s)) <= Abs(s)

\* c (hundredths) is the price m (thousandths) rounded to two decimals
IsRounded2(c, m) == 2 * Abs(10 * c - m) <= 10

ZeroStart(data_dict) ==
    \E i \in 1..Len(data_dict) : PriceAtEarliest(data_dict[i][2]) = 0

\* C7 (as amended): for a mapping of tickers to non-empty series, rows in
\* any date order, whose start prices are all non-zero, summarize returns
\* exactly one row per input ticker, in the order of the mapping; its
\* start and end price are the prices at the earliest and the latest date,
\* each rounded to two decimals, and its percent change is
\* (end - start) / start * 100 of the unrounded prices, rounded to two
\* decimals, 0 for a constant price.  With a zero start price summarize
\* raises ZeroDivisionError and returns no table.
C7_OneRowPerTickerNonZeroStart ==
    output.kind = "summarize" =>
        LET d == input.data_dict
            res == output.result
        IN  IF ZeroStart(d)
            THEN res.kind = "raise"
            ELSE /\ res.kind = "return"
                 /\ Len(res.value.rows) = Len(d)
                 /\ \A i \in 1..Len(d) :
                      LET row == res.value.rows[i]
                          s == PriceAtEarliest(d[i][2])
                          e == PriceAtLatest(d[i][2])
                      IN  /\ row.ticker = d[i][1]
                          /\ \A r \in Range(d[i][2].rows) :
                                row.fecha_inicio <= r.date
                                    /\ r.date <= row.fecha_fin
                          /\ IsRounded2(row.precio_inicio, s)
                          /\ IsRounded2(row.precio_fin, e)
                          /\ IsPercentChange(row.variacion_pct, s, e)
                          /\ (s = e => row.variacion_pct = 0)

\* C7 (as claimed): for any mapping of tickers to non-empty series, rows in
\* any date order, summarize returns exactly one row per input ticker; its
\* start and end price are the prices at the earliest and the latest date (as
\* the table shows them, at two decimals) and its percent change is
\* (end - start) / start * 100 rounded to two decimals, 0 for a constant
\* price.
C7_OneRowPerTicker ==
    output.kind = "summarize" =>
        LET d == input.data_dict
            res == output.result
        IN  /\ res.kind = "return"
            /\ Len(res.value.rows) = Len(d)
            /\ \A i \in 1..Len(d) :
                  LET row == res.value.rows[i]
                      s == PriceAtEarliest(d[i][2])
                      e == PriceAtLatest(d[i][2])
                  IN  /\ row.ticker = d[i][1]
                      /\ IsRounded2(row.precio_inicio, s)
                      /\ IsRounded2(row.precio_fin, e)
                      /\ IsPercentChange(row.variacion_pct, s, e)
                      /\ (s = e => row.variacion_pct = 0)

\* a returned summary of a series the feed gave latest date first, whose
\* price changed
C7_Witness ==
    /\ output.kind = "summarize"
    /\ output.result.kind = "return"
    /\ \E i \in 1..Len(input.data_dict) :
          LET rows == input.data_dict[i][2].rows
          IN  /\ Len(rows) >= 2
              /\ rows[1].date > rows[2].date
              /\ output.result.value.rows[i].variacion_pct # 0

----------------------------------------------------------------------------
(* Specification of the market download alone *)

FeedResponses ==
    {FeedRaises, FeedFrame(FALSE, <<>>), FeedFrame(TRUE, <<>>)}
    \cup {FeedFrame(f.has_adj, f.rows) : f \in Frames}

\* the answers of the feed for the second ticker
BriefFeedResponses ==
    {FeedRaises, FeedFrame(FALSE, <<>>)}
    \cup {FeedFrame(f.has_adj, f.rows) : f \in BriefFrames}

MarketTickerLists == {<<>>, <<TA>>, <<TA, TB>>, <<TB, TA>>, <<TA, TA>>}

InitMarket ==
    /\ history = <<>>
    /\ completed = 0
    /\ calls = 0
    /\ nlp = NLPAgentInit(SampleClf)
    /\ input \in {[kind |-> "market", tickers |-> ts, feed |-> f] :
                    ts \in MarketTickerLists,
                    f \in {x \in [Tickers -> FeedResponses] :
                             x[TB] \in BriefFeedResponses}}
    /\ output = NoOutput

GetMarketData ==
    /\ input.kind = "market"
    /\ output = NoOutput
    /\ output' = [kind |-> "market",
                  result |-> get_market_data(input.tickers, input.feed)]
    /\ UNCHANGED <<history, completed, calls, input, nlp>>

NextMarket == GetMarketData

SpecMarket == InitMarket /\ [][NextMarket]_vars

FeedFailedOrEmpty(resp) == resp.kind = "raise" \/ resp.rows = <<>>

\* C3: each ticker is fetched independently: a ticker whose download raises
\* or is empty is omitted from the mapping, every other ticker of the list
\* is present in it with its frame, and the batch is never aborted.
C3_FailedTickerOmittedOthersPresent ==
    output.kind = "market" =>
        /\ output.result.kind = "return"
        /\ \A t \in Range(input.tickers) :
              IF FeedFailedOrEmpty(input.feed[t])
              THEN t \notin KeySet(output.result.value)
              ELSE /\ t \in KeySet(output.result.value)
                   /\ DictGet(output.result.value, t) = FrameOf(input.feed[t])

----------------------------------------------------------------------------
(* llm_analyst_agent.py: LLMAnalystAgent *)

\* _build_prompt: the prompt is made of the query, the summary table, the
\* sentiment lines and the headlines
build_prompt(user_query, market_summary, sentiments, news) ==
    [user_query |-> user_query, market_summary |-> market_summary,
     sentiments |-> sentiments, news |-> news]

\* the fallback text of _call_llm
FailureMessage == [padded |-> FALSE, text |-> "No fue posible contactar al modelo LLM"]

\* content.strip()
Strip(content) == [padded |-> FALSE, text |-> content.text]

\* _call_llm without its try/except
CallLLMUncaught(prompt, llm) ==
    IF llm.kind = "raise" THEN Raised("ollama")
    ELSE Returned(Strip(llm.content))

\* _call_llm: llm is what ollama.chat does with the prompt
call_llm(prompt, llm) ==
    IF llm.kind = "raise" THEN Returned(FailureMessage)
    ELSE Returned(Strip(llm.content))

build_and_call(user_query, market_summary, sentiments, news, llm) ==
    call_llm(build_prompt(user_query, market_summary, sentiments, news), llm)

----------------------------------------------------------------------------
(* web_news_agent.py, coordinator_agent.py: CoordinatorAgent *)

\* the default of CoordinatorAgent.max_articles
DefaultMaxArticles == 5

WebNewsAgent_get_news(max_articles, tickers, web) ==
    get_news_for_tickers(tickers, max_articles, web)

\* `if not tickers`: None and the empty list are both <<>>
ResolveTickers(user_query, tickers_arg) ==
    IF tickers_arg = <<>>
    THEN extract_tickers_from_query(user_query)
    ELSE tickers_arg

\* CoordinatorAgent.run up to the record it builds: the record returned, or
\* the exception of the first stage that raises
RunResult(agent, user_query, tickers_arg, feed, web, llm) ==
    LET tickers == ResolveTickers(user_query, tickers_arg)
        market_raw == get_market_data(tickers, feed)
    IN  IF market_raw.kind = "raise" THEN market_raw
        ELSE
        LET market_summary == MarketDataAgent_summarize(market_raw.value)
        IN  IF market_summary.kind = "raise" THEN market_summary
            ELSE
            LET news_dict ==
                    WebNewsAgent_get_news(DefaultMaxArticles, tickers, web)
                sentiments == analyze(agent, news_dict)
                llm_answer ==
                    build_and_call(user_query, market_summary.value,
                                   sentiments, news_dict, llm)
            IN  IF llm_answer.kind = "raise" THEN llm_answer
                ELSE Returned(
                        [user_query |-> user_query,
                         tickers |-> tickers,
                         market_raw |-> market_raw.value,
                         market_summary |-> market_summary.value,
                         news |-> news_dict,
                         sentiments |-> sentiments,
                         llm_answer |-> llm_answer.value])

\* the NLPAgent of the coordinator after run: analyze is reached when the
\* market stages did not raise
RunAgent(agent, user_query, tickers_arg, feed, web) ==
    LET tickers == ResolveTickers(user_query, tickers_arg)
        market_raw == get_market_data(tickers, feed)
    IN  IF market_raw.kind = "raise" THEN agent
        ELSE IF MarketDataAgent_summarize(market_raw.value).kind = "raise"
             THEN agent
             ELSE AgentAfterAnalyze(
                      agent,
                      WebNewsAgent_get_news(DefaultMaxArticles, tickers, web))

\* a history that puts the new record first
HistoryPrepended(h, result) ==
    IF result.kind = "return" THEN <<result.value>> \o h ELSE h

\* self.history.append(record), reached only when no stage raised
HistoryAfter(h, result) ==
    IF result.kind = "return" THEN Append(h, result.value) ELSE h

----------------------------------------------------------------------------
(* Specification of the coordinator: at most MaxRuns calls of run *)

MaxRuns == 2

\* the queries: the empty one, a blank, and "A B"
RunQueries == {<<>>, <<" ">>, <<"A", " ", "B">>}

\* both callers (main.py, app_streamlit.py) pass the query alone; a direct
\* caller may pass a list, here one that repeats a ticker
RunTickerArgs == {<<>>, <<TA, TA>>}

\* the calls of run: a query alone, or the empty query with a list
RunCalls ==
    {c \in RunQueries \X RunTickerArgs : c[2] # <<>> => c[1] = <<>>}

\* what the feed may answer for a ticker: it raises, it has no data, a
\* series that starts at price zero, a rising series given latest first
RunFeedResponses ==
    {FeedRaises,
     FeedFrame(FALSE, <<>>),
     FeedFrame(FALSE, <<[date |-> 1, close |-> 0, adj |-> 0],
                        [date |-> 2, close |-> 1004, adj |-> 0]>>),
     FeedFrame(FALSE, <<[date |-> 2, close |-> 2006, adj |-> 0],
                        [date |-> 1, close |-> 1004, adj |-> 0]>>)}

\* what the news site may answer: the request raises, or a page with one
\* headline
RunWebResponses ==
    {RaiseResponse,
     [kind |-> "response", status |-> 200,
      links |-> <<[href |-> [http |-> FALSE, news |-> TRUE, id |-> 2],
                  text |-> 1]>>]}

\* what ollama.chat may do: raise, or answer
RunLLMs ==
    {[kind |-> "raise", content |-> [padded |-> FALSE, text |-> ""]],
     [kind |-> "answer", content |-> [padded |-> TRUE, text |-> "informe"]]}

Init ==
    /\ history = <<>>
    /\ completed = 0
    /\ calls = 0
    /\ nlp = NLPAgentInit(SampleClf)
    /\ input = [kind |-> "none"]
    /\ output = NoOutput

\* CoordinatorAgent.run
Run ==
    /\ calls < MaxRuns
    /\ \E c \in RunCalls, llm \in RunLLMs, wr \in RunWebResponses :
        \E feed \in [Range(ResolveTickers(c[1], c[2])) -> RunFeedResponses] :
            LET q == c[1]
                ta == c[2]
                web == [t \in Range(ResolveTickers(q, ta)) |-> wr]
                result == RunResult(nlp, q, ta, feed, web, llm)
            IN  /\ input' = [kind |-> "run", user_query |-> q,
                             tickers |-> ta, feed |-> feed, web |-> web,
                             llm |-> llm]
                /\ output' = [kind |-> "run", result |-> result]
                /\ history' = HistoryAfter(history, result)
                /\ completed' = IF result.kind = "return"
                                THEN completed + 1 ELSE completed
                /\ calls' = calls + 1
                /\ nlp' = RunAgent(nlp, q, ta, feed, web)

Next == Run

Spec == Init /\ [][Next]_vars


RunMade == input.kind = "run"

RunTickers == ResolveTickers(input.user_query, input.tickers)

LastRecord == history[Len(history)]

\* the download of ticker t gave a series whose price at the earliest date
\* is zero
ZeroStartFeed(t) ==
    /\ ~FeedFailedOrEmpty(input.feed[t])
    /\ PriceAtEarliest(FrameOf(input.feed[t])) = 0

\* the tickers of a summary table, in the order of its rows
SummaryTickers(table) == [i \in 1..Len(table.rows) |-> table.rows[i].ticker]

\* C2: when one ticker's series starts at price zero (and no download
\* raises), run does not fail: the row of that ticker is left out of
\* market_summary, the rows of the other tickers with data are there, news
\* and sentiments cover every ticker and the record is appended to history.
C2_ZeroStartDoesNotFailRun ==
    (/\ RunMade
     /\ \A t \in Range(RunTickers) : input.feed[t].kind # "raise"
     /\ \E t \in Range(RunTickers) : ZeroStartFeed(t))
    => /\ output.result.kind = "return"
       /\ LET r == output.result.value
          IN  /\ Range(SummaryTickers(r.market_summary)) =
                    {t \in Range(RunTickers) :
                        ~FeedFailedOrEmpty(input.feed[t]) /\ ~ZeroStartFeed(t)}
              /\ KeySet(r.news) = Range(RunTickers)
              /\ KeySet(r.sentiments) = Range(RunTickers)
              /\ history # <<>>
              /\ LastRecord = r

\* a mapping with one series, for the columns of a non-empty summary
SampleDataDict ==
    <<(<<TA, [has_adj |-> FALSE,
             rows |-> <<[date |-> 1, close |-> 1004, adj |-> 0]>>]>>)>>

\* C8: when the extraction yields no ticker, run still goes through the
\* market, news, sentiment and report stages and returns, and appends to
\* history, a record whose market_raw, news and sentiments are empty and
\* whose market_summary has no row and the six columns of a non-empty
\* summary.
C8_EmptyTickersGiveEmptyRecord ==
    (/\ RunMade
     /\ input.tickers = <<>>
     /\ extract_tickers_from_query(input.user_query) = <<>>)
    => /\ output.result.kind = "return"
       /\ LET r == output.result.value
          IN  /\ r.tickers = <<>>
              /\ r.market_raw = <<>>
              /\ r.news = <<>>
              /\ r.sentiments = <<>>
              /\ r.market_summary.rows = <<>>
              /\ Len(r.market_summary.columns) = 6
              /\ r.market_summary.columns =
                    summarize_market_data(SampleDataDict).value.columns
              /\ r.llm_answer =
                    IF input.llm.kind = "raise" THEN FailureMessage
                    ELSE Strip(input.llm.content)
              /\ history # <<>>
              /\ LastRecord = r

\* two runs of the empty query, both recorded
C8_Witness ==
    /\ RunMade
    /\ input.user_query = <<>>
    /\ output.result.kind = "return"
    /\ output.result.value.tickers = <<>>
    /\ Len(history) = 2

\* C9: the history is append-only and insertion-ordered: it holds one record
\* per completed run; a run that returns appends the record it returns after
\* the earlier records, which it leaves as they are, and a run that fails
\* leaves the history as it is.
C9_HistoryAppendOnly ==
    [][/\ Len(history') = completed'
       /\ IF output'.result.kind = "return"
          THEN /\ history' = Append(history, output'.result.value)
               /\ completed' = completed + 1
          ELSE /\ history' = history
               /\ completed' = completed]_vars

\* a run that fails after a completed one, whose record stays
C9_Witness ==
    /\ RunMade
    /\ calls = 2
    /\ completed = 1
    /\ Len(history) = 1
    /\ output.result.kind = "raise"

\* the same call with a language model that answers
AnsweringLLM ==
    [kind |-> "answer", content |-> [padded |-> TRUE, text |-> "informe"]]

\* C10: when the language-model call fails, run does not raise: llm_answer
\* is the failure message and tickers, market_raw, market_summary, news and
\* sentiments are those of the run in which the language model answers.
C10_LLMFailureKeepsQuantitativeSections ==
    (RunMade /\ input.llm.kind = "raise") =>
        LET answered == RunResult(nlp, input.user_query, input.tickers,
                                  input.feed, input.web, AnsweringLLM)
        IN  answered.kind = "return" =>
              /\ output.result.kind = "return"
              /\ LET r == output.result.value
                     a == answered.value
                 IN  /\ r.llm_answer = FailureMessage
                     /\ a.llm_answer # FailureMessage
                     /\ r.tickers = a.tickers
                     /\ r.market_raw = a.market_raw
                     /\ r.market_summary = a.market_summary
                     /\ r.news = a.news
                     /\ r.sentiments = a.sentiments
                     /\ history # <<>>
                     /\ LastRecord = r

\* a run with two tickers, one summary row at least, and a failing model
C10_Witness ==
    /\ RunMade
    /\ input.llm.kind = "raise"
    /\ output.result.kind = "return"
    /\ Len(output.result.value.tickers) = 2
    /\ output.result.value.market_summary.rows # <<>>
    /\ output.result.value.llm_answer = FailureMessage

----------------------------------------------------------------------------
(* nlp_agent.py: NLPAgent._clean_text                                      *)
(*                                                                         *)
(* A text is a sequence of characters of TextAlphabet: an uppercase        *)
(* letter, four lowercase letters, the space and a punctuation mark.       *)
(* word_tokenize and the stop-word list are NLTK's: on a text without      *)
(* punctuation the tokenizer splits at white space and splits the          *)
(* contractions of its list, of which "wanna" can be written here; of the  *)
(* Spanish stop words "a", "un" and "una" can be written here.             *)

TextAlphabet == {"A", "a", "n", "u", "w", " ", "!"}

\* str.lower, one character
LowerChar(c) == IF c = "A" THEN "a" ELSE c

\* text.lower()
LowerText(text) == [i \in 1..Len(text) |-> LowerChar(text[i])]

\* the class [a-záéíóúñü0-9\s] of the pattern
KeptChar(c) == c \in {"a", "n", "u", "w", " "}

\* re.sub(r"[^a-záéíóúñü0-9\s]", " ", text)
SubSymbols(text) ==
    [i \in 1..Len(text) |-> IF KeptChar(text[i]) THEN text[i] ELSE " "]

\* str.split(): the maximal runs of characters that are not white space
RECURSIVE SplitFrom(_, _, _)
SplitFrom(text, i, word) ==
    IF i > Len(text)
    THEN IF word = <<>> THEN <<>> ELSE <<word>>
    ELSE IF text[i] = " "
         THEN (IF word = <<>> THEN <<>> ELSE <<word>>)
                  \o SplitFrom(text, i + 1, <<>>)
         ELSE SplitFrom(text, i + 1, Append(word, text[i]))

\* the contraction rule \b(wan)(na)(?=\s) of the tokenizer, on one word
SplitContraction(word) ==
    IF word = <<"w", "a", "n", "n", "a">>
    THEN <<(<<"w", "a", "n">>), (<<"n", "a">>)>>
    ELSE <<word>>

RECURSIVE Flatten(_)
Flatten(lists) ==
    IF lists = <<>> THEN <<>> ELSE Head(lists) \o Flatten(Tail(lists))

\* word_tokenize(text, language="spanish")
word_tokenize(text) ==
    LET words == SplitFrom(text, 1, <<>>)
    IN  Flatten([i \in 1..Len(words) |-> SplitContraction(words[i])])

\* stopwords.words("spanish"), the words over the letters of TextAlphabet
SpanishStopwords == {<<"a">>, <<"u", "n">>, <<"u", "n", "a">>}

\* [t for t in tokens if t not in self.spanish_stopwords and len(t) > 2]
RECURSIVE FilterTokens(_)
FilterTokens(tokens) ==
    IF tokens = <<>> THEN <<>>
    ELSE IF Head(tokens) \notin SpanishStopwords /\ Len(Head(tokens)) > 2
         THEN <<Head(tokens)>> \o FilterTokens(Tail(tokens))
         ELSE FilterTokens(Tail(tokens))

\* " ".join(tokens)
RECURSIVE JoinTokens(_)
JoinTokens(tokens) ==
    IF tokens = <<>> THEN <<>>
    ELSE IF Len(tokens) = 1 THEN Head(tokens)
         ELSE Head(tokens) \o <<" ">> \o JoinTokens(Tail(tokens))

\* the steps in another order: the tokens are filtered and joined before
\* the symbols are replaced
CleanTextSubLast(text) ==
    SubSymbols(JoinTokens(FilterTokens(word_tokenize(LowerText(text)))))

\* NLPAgent._clean_text
clean_text(text) ==
    JoinTokens(FilterTokens(word_tokenize(SubSymbols(LowerText(text)))))

----------------------------------------------------------------------------
(* Specification of the text normalization alone: a text of at most        *)
(* MaxTextLen characters is normalized, and the result normalized again.   *)

MaxTextLen == 5

InitClean ==
    /\ history = <<>>
    /\ completed = 0
    /\ calls = 0
    /\ nlp = NLPAgentInit(SampleClf)
    /\ input \in {[kind |-> "clean", text |-> x] :
                    x \in SeqsUpTo(TextAlphabet, MaxTextLen)}
    /\ output = NoOutput

\* _clean_text(text)
CleanText ==
    /\ input.kind = "clean"
    /\ output = NoOutput
    /\ output' = [kind |-> "clean", times |-> 1,
                  first |-> clean_text(input.text),
                  value |-> clean_text(input.text)]
    /\ UNCHANGED <<history, completed, calls, input, nlp>>

\* _clean_text of what _clean_text returned
CleanAgain ==
    /\ output.kind = "clean"
    /\ output.times = 1
    /\ output' = [kind |-> "clean", times |-> 2,
                  first |-> output.value,
                  value |-> clean_text(output.value)]
    /\ UNCHANGED <<history, completed, calls, input, nlp>>

NextClean == CleanText \/ CleanAgain

SpecClean == InitClean /\ [][NextClean]_vars

\* C11: normalizing a normalized text gives the same string as normalizing
\* the text once.
C11_CleanTextIdempotent ==
    (output.kind = "clean" /\ output.times = 2) => output.value = output.first

\* a text normalized twice, which the first normalization changed and of
\* which it kept a word
C11_Witness ==
    /\ output.kind = "clean"
    /\ output.times = 2
    /\ output.first # <<>>
    /\ output.first # input.text
    /\ output.value = output.first

----------------------------------------------------------------------------
\* C13: the vectorizer and the classifier are fitted once, at construction,
\* and however many times analyze has run the trained classifier is the one
\* construction produced.
C13_FittedOnceNeverRefit ==
    /\ nlp.vectorizer_fits = 1
    /\ nlp.clf_fits = 1
    /\ nlp = NLPAgentInit(SampleClf)

HasSentiments(record) ==
    \E t \in KeySet(record.sentiments) :
        DictGet(record.sentiments, t).sentiments # <<>>

\* analyze has classified headlines in two runs
C13_Witness ==
    /\ Len(history) = 2
    /\ HasSentiments(history[1])
    /\ HasSentiments(history[2])
    /\ nlp.vectorizer_fits = 1
    /\ nlp.clf_fits = 1

----------------------------------------------------------------------------
\* the sections of a record agree on the tickers
SectionsAgree(r) ==
    /\ KeySet(r.news) = Range(r.tickers)
    /\ KeySet(r.sentiments) = Range(r.tickers)
    /\ Len(Keys(r.news)) = Cardinality(KeySet(r.news))
    /\ Len(Keys(r.sentiments)) = Cardinality(KeySet(r.sentiments))
    /\ KeySet(r.market_raw) \subseteq Range(r.tickers)
    /\ Range(SummaryTickers(r.market_summary)) = KeySet(r.market_raw)
    /\ Len(r.market_summary.rows) = Cardinality(KeySet(r.market_raw))

\* C14: in every record run returns (the one just returned and those kept
\* in the history) the keys of news and of sentiments are the tickers of the
\* record, the keys of market_raw are among them, and market_summary has
\* one row for each key of market_raw and no other row.
C14_SectionsAgreeOnTickers ==
    /\ \A i \in 1..Len(history) : SectionsAgree(history[i])
    /\ (RunMade /\ output.result.kind = "return")
           => SectionsAgree(output.result.value)

\* a record of two tickers of which one has no market data, returned by a
\* run whose news requests raised
C14_Witness ==
    /\ RunMade
    /\ output.result.kind = "return"
    /\ output.result.value.tickers = <<TA, TB>>
    /\ Len(output.result.value.market_raw) = 1
    /\ Len(output.result.value.market_summary.rows) = 1
    /\ \A t \in Range(RunTickers) : input.web[t].kind = "raise"
    /\ Len(output.result.value.news) = 2

====
